---- MODULE Spec2Model ----
(***************************************************************************)
(* A model of src/src/lib.rs: the syntax-highlighting pipeline             *)
(*   highlight -> is_binary -> theme / syntax resolution -> highlight_file *)
(*   -> highlighted_rows, and the row filter highlight_ranges.             *)
(*                                                                         *)
(* A Rust &str / String / &[u8] is modelled as the sequence of its bytes   *)
(* (0..255); a &str is always a valid UTF-8 byte sequence.  String         *)
(* literals of the source are written as their bytes, with the text in a   *)
(* comment.                                                                *)
(***************************************************************************)
EXTENDS Integers, Sequences, FiniteSets, TLC

VARIABLES
    SYNTAX_SET,     \* lazy_static SYNTAX_SET: Uninit, or the loaded set
    THEME_SET,      \* lazy_static THEME_SET: Uninit, or the loaded set
    pc,             \* "idle" | "called" | "returned": position of the caller
    req,            \* arguments of the highlight() call in progress
    ret,            \* Result<String, HighlightError> of the last call
    trace,          \* steps the call performed, in order
    resolved,       \* the grammar the call resolved
    rows,           \* rows yielded by highlighted_rows() to highlight_file()
    tokenized,      \* line numbers handed to the Lexical Engine in the call
    remembered,     \* an earlier call (arguments and result) kept by the caller
    content,        \* is_binary(): the byte slice
    sniff,          \* is_binary(): what sniff_mime_type() was asked / answered
    binary,         \* is_binary(): the value returned
    rreq,           \* highlight_ranges(): the arguments
    groups          \* highlight_ranges(): the Vec<Vec<String>> returned

vars == <<SYNTAX_SET, THEME_SET, pc, req, ret, trace, resolved, rows, tokenized,
          remembered, content, sniff, binary, rreq, groups>>

-----------------------------------------------------------------------------
(* Bounds of the model *)

MaxLines == 2
MaxContentLen == 3
MaxRanges == 2
MaxLineNo == 3

-----------------------------------------------------------------------------
(* Option<T> *)

None == [some |-> FALSE]
Some(v) == [some |-> TRUE, v |-> v]

\* a lazy_static before and after its first use
Uninit == [loaded |-> FALSE]
Loaded(v) == [loaded |-> TRUE, v |-> v]

\* no object, no grammar
NoValue == [none |-> TRUE]
NoSyntax == "none"

-----------------------------------------------------------------------------
(* Byte-string helpers *)

Last(s) == s[Len(s)]

StartsWith(s, p) == Len(s) >= Len(p) /\ SubSeq(s, 1, Len(p)) = p

EndsWith(s, p) == Len(s) >= Len(p) /\ SubSeq(s, Len(s) - Len(p) + 1, Len(s)) = p

MinOf(S) == CHOOSE i \in S : \A j \in S : i <= j

MaxOf(S) == CHOOSE i \in S : \A j \in S : i >= j

RECURSIVE Repeat(_, _)
Repeat(u, n) ==
    IF n = 0 THEN <<>>
    ELSE LET h == Repeat(u, n \div 2)
         IN IF n % 2 = 0 THEN h \o h ELSE h \o h \o u

RECURSIVE Flatten(_)
Flatten(ss) == IF ss = <<>> THEN <<>> ELSE Head(ss) \o Flatten(Tail(ss))

\* format!("{}", n) of a usize: decimal digits, no leading zeros
RECURSIVE Decimal(_)
Decimal(n) == IF n < 10 THEN <<48 + n>> ELSE Decimal(n \div 10) \o <<48 + (n % 10)>>

-----------------------------------------------------------------------------
(* std::str::from_utf8: is the byte sequence well-formed UTF-8 *)

IsCont(b) == b >= 128 /\ b <= 191

\* the length of the scalar value whose first byte is b, 0 when b starts none
Utf8Width(b) ==
    IF b <= 127 THEN 1
    ELSE IF b >= 194 /\ b <= 223 THEN 2
    ELSE IF b >= 224 /\ b <= 239 THEN 3
    ELSE IF b >= 240 /\ b <= 244 THEN 4
    ELSE 0

\* the scalar value starting at position i is well formed (no overlong form,
\* no surrogate, nothing above U+10FFFF) and is not cut short
Utf8CharAt(s, i) ==
    LET w == Utf8Width(s[i])
    IN /\ w > 0
       /\ i + w - 1 <= Len(s)
       /\ \A k \in (i + 1)..(i + w - 1) : IsCont(s[k])
       /\ (s[i] = 224 => s[i + 1] >= 160)
       /\ (s[i] = 237 => s[i + 1] <= 159)
       /\ (s[i] = 240 => s[i + 1] >= 144)
       /\ (s[i] = 244 => s[i + 1] <= 143)
       /\ (i + w <= Len(s) => ~IsCont(s[i + w]))

from_utf8_is_ok(s) ==
    /\ (Len(s) > 0 => ~IsCont(s[1]))
    /\ \A i \in 1..Len(s) : ~IsCont(s[i]) => Utf8CharAt(s, i)

-----------------------------------------------------------------------------------------------------------------------------------------------------
(* is_binary (lib.rs 84-94) *)

TextSlash == <<116, 101, 120, 116, 47>>                       \* "text/"

\* content.sniff_mime_type() of the mime_sniffer crate: the MIME type of the
\* first magic number the bytes start with, None when they start with
\* none.  Three entries stand for the crate's table: the UTF-16 byte order
\* marks (text/plain) and the JPEG signature.
sniff_mime_type(bytes) ==
    IF StartsWith(bytes, <<255, 254>>) \/ StartsWith(bytes, <<254, 255>>)
    THEN Some(<<116, 101, 120, 116, 47, 112, 108, 97, 105, 110>>)      \* text/plain
    ELSE IF StartsWith(bytes, <<255, 216, 255>>)
    THEN Some(<<105, 109, 97, 103, 101, 47, 106, 112, 101, 103>>)      \* image/jpeg
    ELSE None

\* value: what is_binary returns; sniffed: whether it asked the sniffer
is_binary_text_is_binary(bytes) ==
    IF from_utf8_is_ok(bytes) THEN [value |-> FALSE, sniffed |-> FALSE]
    ELSE LET m == sniff_mime_type(bytes)
         IN IF m.some
            THEN [value |-> StartsWith(m.v, TextSlash), sniffed |-> TRUE]
            ELSE [value |-> TRUE, sniffed |-> TRUE]

is_binary(bytes) ==
    IF from_utf8_is_ok(bytes) THEN [value |-> FALSE, sniffed |-> FALSE]
    ELSE LET m == sniff_mime_type(bytes)
         IN IF m.some
            THEN [value |-> ~StartsWith(m.v, TextSlash), sniffed |-> TRUE]
            ELSE [value |-> TRUE, sniffed |-> TRUE]

-----------------------------------------------------------------------------
(* std::path::Path::file_name and Path::extension (lib.rs 48-50)            *)

Dot == <<46>>                                                 \* "."
DotDot == <<46, 46>>                                          \* ".."

\* the Normal and ParentDir components of a path: the pieces between '/',
\* with empty pieces (repeated or trailing separators) and "." dropped
RECURSIVE Components(_)
Components(p) ==
    IF p = <<>> THEN <<>>
    ELSE LET sl == {i \in 1..Len(p) : p[i] = 47}
             cut == IF sl = {} THEN Len(p) + 1 ELSE MinOf(sl)
             piece == SubSeq(p, 1, cut - 1)
             rest == SubSeq(p, cut + 1, Len(p))
         IN (IF piece = <<>> \/ piece = Dot THEN <<>> ELSE <<piece>>)
                \o Components(rest)

\* Path::file_name: the last component if it is a normal one
file_name(p) ==
    LET c == Components(p)
    IN IF c = <<>> \/ Last(c) = DotDot THEN None ELSE Some(Last(c))

\* Path::extension: what follows the last '.' of the file name, unless the
\* name has no '.' or only a leading one
extension(p) ==
    LET f == file_name(p)
    IN IF ~f.some THEN None
       ELSE LET dots == {i \in 1..Len(f.v) : f.v[i] = 46}
            IN IF dots = {} \/ MaxOf(dots) = 1 THEN None
               ELSE Some(SubSeq(f.v, MaxOf(dots) + 1, Len(f.v)))

unwrap_or(opt, default) == IF opt.some THEN opt.v ELSE default

-----------------------------------------------------------------------------
(* The lazily loaded registries (lib.rs 19-25).  Their content is data of  *)
(* the syntect crate; a small registry stands for it: a grammar keyed by a *)
(* whole file name, one whose key is also another file's extension, and   *)
(* one with a first-line pattern.                                          *)

PlainText == "Plain Text"

load_defaults_newlines ==
    << [name |-> PlainText,
        file_extensions |-> {<<116, 120, 116>>},                      \* "txt"
        first_line |-> None],
       [name |-> "Go",
        file_extensions |-> {<<103, 111>>},                           \* "go"
        first_line |-> None],
       [name |-> "CMake",
        file_extensions |->
            {<<67, 77, 97, 107, 101, 76, 105, 115, 116, 115, 46, 116, 120, 116>>},
                                                                      \* "CMakeLists.txt"
        first_line |-> None],
       [name |-> "Dockerfile",
        file_extensions |->
            {<<68, 111, 99, 107, 101, 114, 102, 105, 108, 101>>},     \* "Dockerfile"
        first_line |-> None],
       [name |-> "Shell",
        file_extensions |-> {<<115, 104>>},                           \* "sh"
        first_line |-> Some(<<35, 33>>)] >>                           \* ^#!

\* colours are written by the crate as "#rrggbb"
load_defaults ==
    [themes |->
        [n \in {"Sourcegraph (light)", "Sourcegraph"} |->
            IF n = "Sourcegraph (light)"
            THEN [name |-> n,
                  foreground |-> <<35, 50, 52, 50, 57, 50, 101>>,       \* #24292e
                  keyword |-> <<35, 100, 55, 51, 97, 52, 57>>,          \* #d73a49
                  string |-> <<35, 48, 51, 50, 102, 54, 50>>]           \* #032f62
            ELSE [name |-> n,
                  foreground |-> <<35, 101, 49, 101, 52, 101, 56>>,     \* #e1e4e8
                  keyword |-> <<35, 102, 57, 55, 53, 56, 51>>,          \* #f97583
                  string |-> <<35, 57, 101, 99, 98, 102, 102>>]]]       \* #9ecbff

\* Deref of a lazy_static: the first use runs the initializer
Deref(static, initializer) == IF static.loaded THEN static ELSE Loaded(initializer)

\* SyntaxSet::find_syntax_by_extension: the last syntax listing the key
find_syntax_by_extension(ss, key) ==
    LET hits == {i \in 1..Len(ss) : key \in ss[i].file_extensions}
    IN IF hits = {} THEN None ELSE Some(ss[MaxOf(hits)].name)

\* SyntaxSet::find_syntax_by_first_line: the last syntax whose first-line
\* pattern matches the text
find_syntax_by_first_line(ss, code) ==
    LET hits == {i \in 1..Len(ss) :
                    ss[i].first_line.some /\ StartsWith(code, ss[i].first_line.v)}
    IN IF hits = {} THEN None ELSE Some(ss[MaxOf(hits)].name)

find_syntax_plain_text(ss) ==
    ss[CHOOSE i \in 1..Len(ss) : ss[i].name = PlainText].name

\* the theme selection of highlight (lib.rs 41-45)
select_theme(ts, is_light_theme) ==
    IF is_light_theme THEN ts.themes["Sourcegraph (light)"]
    ELSE ts.themes["Sourcegraph"]

\* the or_else chain of highlight (lib.rs 66-75); lookups lists the lookups
\* the chain ran, in order
syntax_def_extension_first(ss, filepath, code) ==
    LET name == unwrap_or(file_name(filepath), <<>>)
        ext == unwrap_or(extension(filepath), <<>>)
        s1 == find_syntax_by_extension(ss, ext)
        s2 == find_syntax_by_extension(ss, name)
        s3 == find_syntax_by_first_line(ss, code)
    IN IF s1.some THEN [syntax |-> s1.v, lookups |-> <<"extension">>]
       ELSE IF s2.some
       THEN [syntax |-> s2.v, lookups |-> <<"extension", "file_name">>]
       ELSE IF s3.some
       THEN [syntax |-> s3.v,
             lookups |-> <<"extension", "file_name", "first_line">>]
       ELSE [syntax |-> find_syntax_plain_text(ss),
             lookups |-> <<"extension", "file_name", "first_line", "plain_text">>]

syntax_def(ss, filepath, code) ==
    LET name == unwrap_or(file_name(filepath), <<>>)
        ext == unwrap_or(extension(filepath), <<>>)
        s1 == find_syntax_by_extension(ss, name)
        s2 == find_syntax_by_extension(ss, ext)
        s3 == find_syntax_by_first_line(ss, code)
    IN IF s1.some THEN [syntax |-> s1.v, lookups |-> <<"file_name">>]
       ELSE IF s2.some
       THEN [syntax |-> s2.v, lookups |-> <<"file_name", "extension">>]
       ELSE IF s3.some
       THEN [syntax |-> s3.v,
             lookups |-> <<"file_name", "extension", "first_line">>]
       ELSE [syntax |-> find_syntax_plain_text(ss),
             lookups |-> <<"file_name", "extension", "first_line", "plain_text">>]

-----------------------------------------------------------------------------
(* The Lexical Engine (syntect), as highlighted_rows uses it (lib.rs 97,   *)
(* 105, 106).  The engine is an external crate; what matters of it here:   *)
(* the HighlightLines object carries parse state from one line to the     *)
(* next (here: inside a multi-line `raw string`), the style of a line      *)
(* depends on syntax, theme and that state, and the HTML writer escapes    *)
(* the text and wraps it in a span.                                        *)

\* HighlightLines::new(syntax, theme)
HighlightLines_new(syntax, theme) ==
    [syntax |-> syntax, theme |-> theme, in_raw_string |-> FALSE]

\* HighlightLines::highlight(line, ss): the styled regions of the line and
\* the object's state after it
HighlightLines_highlight(hl, line, ss) ==
    LET ticks == Cardinality({i \in 1..Len(line) : line[i] = 96})
        style == IF hl.syntax = PlainText THEN hl.theme.foreground
                 ELSE IF hl.in_raw_string THEN hl.theme.string
                 ELSE hl.theme.keyword
    IN [regions |-> <<[style |-> style, text |-> line]>>,
        hl |-> IF hl.syntax = PlainText THEN hl
               ELSE [hl EXCEPT !.in_raw_string =
                        IF ticks % 2 = 1 THEN ~hl.in_raw_string
                        ELSE hl.in_raw_string]]

\* the crate's HTML escaping of one byte
EscapeByte(b) ==
    IF b = 38 THEN <<38, 97, 109, 112, 59>>                   \* & -> &amp;
    ELSE IF b = 60 THEN <<38, 108, 116, 59>>                  \* < -> &lt;
    ELSE IF b = 62 THEN <<38, 103, 116, 59>>                  \* > -> &gt;
    ELSE IF b = 34 THEN <<38, 113, 117, 111, 116, 59>>        \* " -> &quot;
    ELSE IF b = 39 THEN <<38, 35, 51, 57, 59>>                \* ' -> &#39;
    ELSE <<b>>

RECURSIVE EscapeRange(_, _, _)
EscapeRange(text, lo, hi) ==
    IF lo > hi THEN <<>>
    ELSE IF lo = hi THEN EscapeByte(text[lo])
    ELSE LET mid == (lo + hi) \div 2
         IN EscapeRange(text, lo, mid) \o EscapeRange(text, mid + 1, hi)

Escape(text) == EscapeRange(text, 1, Len(text))

SpanOpen == <<60, 115, 112, 97, 110, 32, 115, 116, 121, 108, 101, 61, 34,
              99, 111, 108, 111, 114, 58>>                    \* <span style="color:
SpanOpenEnd == <<59, 34, 62>>                                 \* ;">
SpanClose == <<60, 47, 115, 112, 97, 110, 62>>                \* </span>

\* append_highlighted_html_for_styled_line(regions, IncludeBackground::No, s)
RECURSIVE append_highlighted_html_for_styled_line(_)
append_highlighted_html_for_styled_line(regions) ==
    IF regions = <<>> THEN <<>>
    ELSE SpanOpen \o Head(regions).style \o SpanOpenEnd
            \o Escape(Head(regions).text) \o SpanClose
            \o append_highlighted_html_for_styled_line(Tail(regions))

-----------------------------------------------------------------------------
(* The table framing (lib.rs 138-152) *)

TableOpen == <<60, 116, 97, 98, 108, 101, 62,
               60, 116, 98, 111, 100, 121, 62>>               \* <table><tbody>
TableClose == <<60, 47, 116, 98, 111, 100, 121, 62,
                60, 47, 116, 97, 98, 108, 101, 62>>           \* </tbody></table>
RowOpenA == <<60, 116, 114, 62, 60, 116, 100, 32, 99, 108, 97, 115, 115, 61,
              34, 108, 105, 110, 101, 34, 32, 100, 97, 116, 97, 45, 108,
              105, 110, 101, 61, 34>>          \* <tr><td class="line" data-line="
RowOpenB == <<34, 62, 60, 47, 116, 100, 62, 60, 116, 100, 32, 99, 108, 97,
              115, 115, 61, 34, 99, 111, 100, 101, 34, 62, 60, 100, 105,
              118, 62>>                        \* "></td><td class="code"><div>
RowClose == <<60, 47, 100, 105, 118, 62, 60, 47, 116, 100, 62,
              60, 47, 116, 114, 62>>                          \* </div></td></tr>

start_highlighted_table(s) == s \o TableOpen

end_highlighted_table(s) == s \o TableClose

start_table_row_zero_based(s, row_num) ==
    s \o RowOpenA \o Decimal(row_num - 1) \o RowOpenB

start_table_row(s, row_num) == s \o RowOpenA \o Decimal(row_num) \o RowOpenB

end_table_row(s) == s \o RowClose

-----------------------------------------------------------------------------
(* highlighted_rows (lib.rs 96-111) *)

LongLineThreshold == 2000

\* the guard of lib.rs 102: the line is emitted raw, not tokenized
is_skipped_at_threshold(highlight_long_lines, line) ==
    ~highlight_long_lines /\ Len(line) >= LongLineThreshold

is_skipped(highlight_long_lines, line) ==
    ~highlight_long_lines /\ Len(line) > LongLineThreshold

\* LinesWithEndings::next on a non-empty rest: the text up to and including
\* the first '\n', or all of it when there is none
LinesWithEndings_next_stripped(input) ==
    LET nl == {i \in 1..Len(input) : input[i] = 10}
        split == IF nl = {} THEN Len(input) ELSE MinOf(nl)
    IN [line |-> IF nl = {} THEN input ELSE SubSeq(input, 1, split - 1),
        rest |-> SubSeq(input, split + 1, Len(input))]

LinesWithEndings_next(input) ==
    LET nl == {i \in 1..Len(input) : input[i] = 10}
        split == IF nl = {} THEN Len(input) ELSE MinOf(nl)
    IN [line |-> SubSeq(input, 1, split),
        rest |-> SubSeq(input, split + 1, Len(input))]

\* the closure of lib.rs 99-110 on the i-th (0-based) line
highlighted_row(i, line, hl, ss, highlight_long_lines) ==
    LET opened == start_table_row(<<>>, i + 1)
    IN IF is_skipped(highlight_long_lines, line)
       THEN [row |-> end_table_row(opened \o line), hl |-> hl, engine |-> FALSE]
       ELSE LET r == HighlightLines_highlight(hl, line, ss)
            IN [row |-> end_table_row(
                            opened \o append_highlighted_html_for_styled_line(r.regions)),
                hl |-> r.hl, engine |-> TRUE]

\* one more row taken from the iterator: acc holds the rows so far, the
\* line numbers the engine was given, and the highlighter
push_highlighted_row(acc, i, r) ==
    [rows |-> Append(acc.rows, r.row),
     tokenized |-> IF r.engine THEN acc.tokenized \cup {i + 1} ELSE acc.tokenized,
     hl |-> r.hl]

\* the iterator drained, from the i-th (0-based) line on
RECURSIVE rows_from(_, _, _, _, _)
rows_from(input, i, acc, ss, highlight_long_lines) ==
    IF input = <<>> THEN acc
    ELSE rows_from(LinesWithEndings_next(input).rest, i + 1,
                   push_highlighted_row(acc, i,
                        highlighted_row(i, LinesWithEndings_next(input).line,
                                        acc.hl, ss, highlight_long_lines)),
                   ss, highlight_long_lines)

highlighted_rows(code, ss, syntax, theme, highlight_long_lines) ==
    rows_from(code, 0,
              [rows |-> <<>>, tokenized |-> {},
               hl |-> HighlightLines_new(syntax, theme)],
              ss, highlight_long_lines)

-----------------------------------------------------------------------------
(* highlight_file (lib.rs 126-136) *)

\* the loop of lib.rs 128-135 over the rows it
table_of(it) ==
    [output |-> end_highlighted_table(
                    start_highlighted_table(<<>>) \o Flatten(it.rows)),
     rows |-> it.rows, tokenized |-> it.tokenized]

highlight_file(code, ss, syntax, theme, highlight_long_lines) ==
    table_of(highlighted_rows(code, ss, syntax, theme, highlight_long_lines))

-----------------------------------------------------------------------------
(* highlight (lib.rs 32-82) *)

Ok(html) == [ok |-> TRUE, html |-> html]
Err(e) == [ok |-> FALSE, err |-> e]

\* what a call leaves: its result, the steps it took, the grammar it used
\* and the two registries
BinaryResult(statics) ==
    [ret |-> Err("Binary"), trace |-> <<"is_binary">>, syntax |-> NoSyntax,
     rows |-> <<>>, tokenized |-> {}, ss |-> statics.ss, ts |-> statics.ts]

\* a variant that leaves the syntax registry without its last grammar
OkResult_drops_grammar(ts, ss, sd, f) ==
    [ret |-> Ok(f.output),
     trace |-> <<"is_binary", "theme">> \o sd.lookups \o <<"highlight_file">>,
     syntax |-> sd.syntax, rows |-> f.rows, tokenized |-> f.tokenized,
     ss |-> Loaded(SubSeq(ss.v, 1, Len(ss.v) - 1)), ts |-> ts]

OkResult(ts, ss, sd, f) ==
    [ret |-> Ok(f.output),
     trace |-> <<"is_binary", "theme">> \o sd.lookups \o <<"highlight_file">>,
     syntax |-> sd.syntax, rows |-> f.rows, tokenized |-> f.tokenized,
     ss |-> ss, ts |-> ts]

\* a variant that fails when no lookup finds a grammar
render_no_fallback(ts, ss, sd, theme, code, highlight_long_lines) ==
    IF Last(sd.lookups) = "plain_text"
    THEN [ret |-> Err("invalid_extension"),
          trace |-> <<"is_binary", "theme">> \o sd.lookups, syntax |-> NoSyntax,
          rows |-> <<>>, tokenized |-> {}, ss |-> ss, ts |-> ts]
    ELSE OkResult(ts, ss, sd,
                  highlight_file(code, ss.v, sd.syntax, theme, highlight_long_lines))

\* lib.rs 81, with the grammar sd and the theme chosen
render(ts, ss, sd, theme, code, highlight_long_lines) ==
    OkResult(ts, ss, sd,
             highlight_file(code, ss.v, sd.syntax, theme, highlight_long_lines))

\* lib.rs 41-81, with both registries dereferenced
highlight_text(ts, ss, code, filepath, is_light_theme, highlight_long_lines) ==
    render(ts, ss, syntax_def(ss.v, filepath, code),
           select_theme(ts.v, is_light_theme), code, highlight_long_lines)

\* statics: the two registries as the call finds them
highlight(statics, code, filepath, is_light_theme, highlight_long_lines) ==
    IF is_binary(code).value THEN BinaryResult(statics)
    ELSE highlight_text(Deref(statics.ts, load_defaults),
                        Deref(statics.ss, load_defaults_newlines),
                        code, filepath, is_light_theme, highlight_long_lines)

-----------------------------------------------------------------------------
(* highlight_ranges (lib.rs 113-124) and LineRange (lib.rs 214-223) *)

LineRange_contains(self, line_num) ==
    line_num >= self.start /\ line_num <= self.end

\* the inner loop of lib.rs 116-120 for one row: i is the 0-based index of
\* the group, and it is i that the range is asked about
push_row(output, ranges, row) ==
    [j \in 1..Len(output) |->
        IF LineRange_contains(ranges[j], j - 1) THEN Append(output[j], row)
        ELSE output[j]]

RECURSIVE push_rows(_, _, _)
push_rows(output, ranges, rs) ==
    IF rs = <<>> THEN output
    ELSE push_rows(push_row(output, ranges, Head(rs)), ranges, Tail(rs))

highlight_ranges(code, ss, syntax, theme, highlight_long_lines, ranges) ==
    push_rows([j \in 1..Len(ranges) |-> <<>>], ranges,
              highlighted_rows(code, ss, syntax, theme, highlight_long_lines).rows)

-----------------------------------------------------------------------------
(* The inputs the model draws *)

NL == <<10>>                                                  \* "\n"
LetterA == <<97>>                                             \* "a"
EAcute == <<195, 169>>                                        \* U+00E9, two bytes

\* line bodies: "", "a", "`" (opens or closes a raw string), "<a"
Bodies == {<<>>, LetterA, <<96>>, <<60, 97>>}

Segments == {b \o t : b \in Bodies, t \in {<<>>, NL}}

RECURSIVE CodesUpTo(_)
CodesUpTo(n) ==
    IF n = 0 THEN {<<>>}
    ELSE LET c == CodesUpTo(n - 1) IN c \cup {x \o g : x \in c, g \in Segments}

ShortCodes == CodesUpTo(MaxLines)

\* bodies around the long-line threshold, in bytes: 1999, 2000 and 2001 of
\* "a"; 1000 of U+00E9 (2000 bytes); 1000 of U+00E9 and "a" (2001 bytes, 1001
\* characters); "<table><tbody>" and 2000 of "a"
LongBodies ==
    {Repeat(LetterA, LongLineThreshold - 1), Repeat(LetterA, LongLineThreshold),
     Repeat(LetterA, LongLineThreshold + 1),
     Repeat(EAcute, LongLineThreshold \div 2),
     Repeat(EAcute, LongLineThreshold \div 2) \o LetterA,
     TableOpen \o Repeat(LetterA, LongLineThreshold)}

\* a long line alone, and between a line that opens a raw string and a
\* short last line
LongCodes ==
    {ctx[1] \o b \o t \o ctx[2] :
        ctx \in {<< <<>>, <<>> >>, << <<96, 10>>, <<97, 10>> >>},
        b \in LongBodies, t \in {<<>>, NL}}

SpecialCodes ==
    {<<0, 1, 2>>,                                                 \* "\x00\x01\x02"
     <<112, 97, 99, 107, 97, 103, 101, 32, 109, 97, 105, 110, 10>>, \* "package main\n"
     <<35, 33, 47, 98, 105, 110, 47, 115, 104, 10>>,              \* "#!/bin/sh\n"
     <<97, 13, 10, 38>>,                                          \* "a\r\n&"
     Repeat(NL, 11)}                                              \* 11 empty lines

MainGo == <<109, 97, 105, 110, 46, 103, 111>>                     \* "main.go"

Paths ==
    {<<>>,                                                        \* ""
     MainGo,
     <<102, 111, 111, 47, 109, 97, 105, 110, 46, 103, 111>>,      \* "foo/main.go"
     <<68, 111, 99, 107, 101, 114, 102, 105, 108, 101>>,          \* "Dockerfile"
     <<67, 77, 97, 107, 101, 76, 105, 115, 116, 115, 46, 116, 120, 116>>,
                                                                  \* "CMakeLists.txt"
     <<97, 46, 116, 120, 116>>,                                   \* "a.txt"
     <<120, 46, 117, 110, 107, 110, 111, 119, 110>>,              \* "x.unknown"
     <<46, 103, 111>>,                                            \* ".go"
     <<103, 111>>,                                                \* "go"
     <<103, 111, 47, 46>>,                                        \* "go/."
     <<102, 111, 111, 47>>,                                       \* "foo/"
     <<102, 111, 111, 47, 46, 46>>,                               \* "foo/.."
     <<97, 46>>,                                                  \* "a."
     <<47>>,                                                      \* "/"
     <<68, 111, 99, 107, 101, 114, 102, 105, 108, 101, 46, 115, 104>>}
                                                                  \* "Dockerfile.sh"

Request(code, filepath, is_light_theme, highlight_long_lines) ==
    [code |-> code, filepath |-> filepath, is_light_theme |-> is_light_theme,
     highlight_long_lines |-> highlight_long_lines]

Inputs ==
    {Request(c, MainGo, TRUE, l) : c \in ShortCodes, l \in BOOLEAN}
    \cup {Request(c, MainGo, TRUE, l) : c \in LongCodes, l \in BOOLEAN}
    \cup {Request(c, p, t, l) :
            c \in SpecialCodes, p \in Paths, t \in BOOLEAN, l \in BOOLEAN}

\* the calls of the repeated-call specification
CallInputs ==
    {Request(c, p, t, TRUE) :
        c \in {<<96, 10, 97>>, <<97, 10>>, <<35, 33, 47, 98, 105, 110, 47, 115, 104, 10>>},
        p \in {MainGo, <<>>, <<97, 46, 116, 120, 116>>}, t \in BOOLEAN}

\* bytes of the slices given to is_binary: 'A', NUL, 0xC3 0xA9 (U+00E9),
\* 0xFF 0xFE (a byte order mark), 0xFF 0xD8 0xFF (JPEG)
ContentBytes == {65, 0, 195, 169, 255, 254, 216}

RECURSIVE BytesUpTo(_)
BytesUpTo(n) ==
    IF n = 0 THEN {<<>>}
    ELSE LET c == BytesUpTo(n - 1)
         IN c \cup {Append(x, b) : x \in c, b \in ContentBytes}

Contents == BytesUpTo(MaxContentLen)

LineRanges == {[start |-> a, end |-> b] : a \in 0..MaxLineNo, b \in 0..MaxLineNo}

RECURSIVE RangesUpTo(_)
RangesUpTo(n) ==
    IF n = 0 THEN {<<>>}
    ELSE LET c == RangesUpTo(n - 1)
         IN c \cup {Append(x, r) : x \in c, r \in LineRanges}

RangeInputs ==
    {[code |-> Repeat(<<97, 10>>, k), ranges |-> rs, highlight_long_lines |-> TRUE] :
        k \in 0..MaxLineNo, rs \in RangesUpTo(MaxRanges)}

-----------------------------------------------------------------------------
(* The state machine: calls of highlight() *)

Init ==
    /\ SYNTAX_SET = Uninit
    /\ THEME_SET = Uninit
    /\ pc = "idle"
    /\ req = NoValue
    /\ ret = NoValue
    /\ trace = <<>>
    /\ resolved = NoSyntax
    /\ rows = <<>>
    /\ tokenized = {}
    /\ remembered = NoValue
    /\ content = <<>>
    /\ sniff = NoValue
    /\ binary = None
    /\ rreq = NoValue
    /\ groups = None

others == <<content, sniff, binary, rreq, groups>>

\* a caller enters highlight() with arguments r
Call(r) ==
    /\ pc = "idle"
    /\ pc' = "called"
    /\ req' = r
    /\ UNCHANGED <<SYNTAX_SET, THEME_SET, ret, trace, resolved, rows, tokenized,
                   remembered, others>>

\* the call returns h
Return(h) ==
    /\ ret' = h.ret
    /\ trace' = h.trace
    /\ resolved' = h.syntax
    /\ rows' = h.rows
    /\ tokenized' = h.tokenized
    /\ SYNTAX_SET' = h.ss
    /\ THEME_SET' = h.ts

\* the body of highlight() (lib.rs 32-82), run to its return
Highlight ==
    /\ pc = "called"
    /\ Return(highlight([ss |-> SYNTAX_SET, ts |-> THEME_SET], req.code,
                        req.filepath, req.is_light_theme,
                        req.highlight_long_lines))
    /\ pc' = "returned"
    /\ UNCHANGED <<req, remembered, others>>

\* the caller is done with the result
Finish ==
    /\ pc = "returned"
    /\ pc' = "idle"
    /\ req' = NoValue
    /\ ret' = NoValue
    /\ trace' = <<>>
    /\ resolved' = NoSyntax
    /\ rows' = <<>>
    /\ tokenized' = {}
    /\ UNCHANGED <<SYNTAX_SET, THEME_SET, remembered, others>>

Next ==
    \/ \E r \in Inputs : Call(r)
    \/ Highlight
    \/ Finish

Spec == Init /\ [][Next]_vars

-----------------------------------------------------------------------------
(* Repeated calls: the caller may keep one earlier call and its result *)

Remember ==
    /\ pc = "returned"
    /\ remembered' = [req |-> req, ret |-> ret]
    /\ pc' = "idle"
    /\ req' = NoValue
    /\ ret' = NoValue
    /\ trace' = <<>>
    /\ resolved' = NoSyntax
    /\ rows' = <<>>
    /\ tokenized' = {}
    /\ UNCHANGED <<SYNTAX_SET, THEME_SET, others>>

NextCalls ==
    \/ \E r \in CallInputs : Call(r)
    \/ Highlight
    \/ Finish
    \/ Remember

SpecCalls == Init /\ [][NextCalls]_vars

-----------------------------------------------------------------------------
(* is_binary applied to a byte slice *)

InitBinary ==
    /\ SYNTAX_SET = Uninit
    /\ THEME_SET = Uninit
    /\ pc = "idle"
    /\ req = NoValue
    /\ ret = NoValue
    /\ trace = <<>>
    /\ resolved = NoSyntax
    /\ rows = <<>>
    /\ tokenized = {}
    /\ remembered = NoValue
    /\ content \in Contents
    /\ sniff = NoValue
    /\ binary = None
    /\ rreq = NoValue
    /\ groups = None

IsBinary ==
    /\ ~binary.some
    /\ binary' = Some(is_binary(content).value)
    /\ sniff' = [asked |-> is_binary(content).sniffed,
                 answer |-> IF is_binary(content).sniffed
                            THEN sniff_mime_type(content) ELSE None]
    /\ UNCHANGED <<SYNTAX_SET, THEME_SET, pc, req, ret, trace, resolved, rows,
                   tokenized, remembered, content, rreq, groups>>

NextBinary == IsBinary

SpecBinary == InitBinary /\ [][NextBinary]_vars

-----------------------------------------------------------------------------
(* highlight_ranges applied to a text and a list of ranges *)

InitRanges ==
    /\ SYNTAX_SET = Uninit
    /\ THEME_SET = Uninit
    /\ pc = "idle"
    /\ req = NoValue
    /\ ret = NoValue
    /\ trace = <<>>
    /\ resolved = NoSyntax
    /\ rows = <<>>
    /\ tokenized = {}
    /\ remembered = NoValue
    /\ content = <<>>
    /\ sniff = NoValue
    /\ binary = None
    /\ rreq \in RangeInputs
    /\ groups = None

HighlightRanges ==
    /\ ~groups.some
    /\ groups' = Some(highlight_ranges(rreq.code, load_defaults_newlines, "Go",
                                       select_theme(load_defaults, TRUE),
                                       rreq.highlight_long_lines, rreq.ranges))
    /\ rows' = highlighted_rows(rreq.code, load_defaults_newlines, "Go",
                                select_theme(load_defaults, TRUE),
                                rreq.highlight_long_lines).rows
    /\ UNCHANGED <<SYNTAX_SET, THEME_SET, pc, req, ret, trace, resolved,
                   tokenized, remembered, content, sniff, binary, rreq>>

NextRanges == HighlightRanges

SpecRanges == InitRanges /\ [][NextRanges]_vars

-----------------------------------------------------------------------------
(* What the properties below are stated with: the lines of a text, the     *)
(* frame of a row, the registry keys, each defined from the text and the   *)
(* registry alone.                                                         *)

Returned == pc = "returned"

\* the positions at which a line ends: every '\n', and the last byte of a
\* text that does not end in '\n'
LineEnds(code) ==
    {i \in 1..Len(code) : code[i] = 10}
        \cup (IF code # <<>> /\ Last(code) # 10 THEN {Len(code)} ELSE {})

NumLines(code) == Cardinality(LineEnds(code))

LineEnd(code, k) ==
    LET ends == LineEnds(code)
    IN CHOOSE e \in ends : Cardinality({x \in ends : x <= e}) = k

\* the k-th line, its terminator attached
LineOf(code, k) ==
    SubSeq(code, IF k = 1 THEN 1 ELSE LineEnd(code, k - 1) + 1, LineEnd(code, k))

\* a line number below 100 in decimal
DataLine(k) == IF k < 10 THEN <<48 + k>> ELSE <<48 + (k \div 10), 48 + (k % 10)>>

RowFrame(k, body) == RowOpenA \o DataLine(k) \o RowOpenB \o body \o RowClose

ThemeColours ==
    UNION {{load_defaults.themes[n].foreground, load_defaults.themes[n].keyword,
            load_defaults.themes[n].string} : n \in DOMAIN load_defaults.themes}

\* what the Lexical Engine can make of a line: its escaped text in one span
TokenizedBodies(line) ==
    {SpanOpen \o c \o SpanOpenEnd \o Escape(line) \o SpanClose : c \in ThemeColours}

\* how often pat occurs in s
Occurrences(s, pat) ==
    Cardinality({i \in 1..(Len(s) - Len(pat) + 1) :
                    s[i] = pat[1] /\ SubSeq(s, i, i + Len(pat) - 1) = pat})

\* the grammars registered under a key
GrammarsFor(key) ==
    {load_defaults_newlines[i].name : i \in
        {j \in 1..Len(load_defaults_newlines) :
            key \in load_defaults_newlines[j].file_extensions}}

FirstLineGrammars(code) ==
    {load_defaults_newlines[i].name : i \in
        {j \in 1..Len(load_defaults_newlines) :
            /\ load_defaults_newlines[j].first_line.some
            /\ StartsWith(code, load_defaults_newlines[j].first_line.v)}}

BaseName(path) == unwrap_or(file_name(path), <<>>)
ExtensionOf(path) == unwrap_or(extension(path), <<>>)

\* the lookups of the call, taken from its trace
Lookups == SubSeq(trace, 3, Len(trace) - 1)

Chain == <<"file_name", "extension", "first_line", "plain_text">>

Found(step) ==
    IF step = "file_name" THEN GrammarsFor(BaseName(req.filepath)) # {}
    ELSE IF step = "extension" THEN GrammarsFor(ExtensionOf(req.filepath)) # {}
    ELSE IF step = "first_line" THEN FirstLineGrammars(req.code) # {}
    ELSE TRUE

-----------------------------------------------------------------------------
(* C1: a call whose text is_binary classifies as binary returns the Binary *)
(* error and has done nothing but the binary check: no theme selection, no *)
(* lookup, no row.  (The text of a call is a &str, which from_utf8 never   *)
(* rejects, so no call of the model meets the premise.)                    *)
C1_BinaryEndsTheCall ==
    (Returned /\ is_binary(req.code).value) =>
        /\ ret = Err("Binary")
        /\ trace = <<"is_binary">>
        /\ rows = <<>>
        /\ tokenized = {}

(* C2: for the text "\x00\x01\x02" (any path, any flags) highlight()       *)
(* returns the Binary error and not an HTML string.                        *)
C2_NulBytesAreBinary ==
    (Returned /\ req.code = <<0, 1, 2>>) => (~ret.ok /\ ret.err = "Binary")

(* C3: the lookups of a call are a prefix of file name, extension, first   *)
(* line, plain text; each one but the last found no grammar and the last   *)
(* one found the grammar used; so a grammar registered under the base file *)
(* name is the one used whatever the extension or the first line match.    *)
C3_ResolutionOrder ==
    (Returned /\ ret.ok) =>
        /\ Len(Lookups) \in 1..4
        /\ Lookups = SubSeq(Chain, 1, Len(Lookups))
        /\ \A i \in 1..(Len(Lookups) - 1) : ~Found(Lookups[i])
        /\ Found(Last(Lookups))
        /\ Last(Lookups) = "file_name" =>
                resolved \in GrammarsFor(BaseName(req.filepath))
        /\ Last(Lookups) = "extension" =>
                resolved \in GrammarsFor(ExtensionOf(req.filepath))
        /\ Last(Lookups) = "first_line" => resolved \in FirstLineGrammars(req.code)
        /\ Last(Lookups) = "plain_text" => resolved = PlainText
        /\ GrammarsFor(BaseName(req.filepath)) # {} =>
                resolved \in GrammarsFor(BaseName(req.filepath))

\* a file name key, an extension key of another grammar and a first-line
\* pattern all match, and the file name's grammar was used
C3_Witness ==
    /\ Returned /\ ret.ok
    /\ GrammarsFor(BaseName(req.filepath)) = {"CMake"}
    /\ GrammarsFor(ExtensionOf(req.filepath)) = {PlainText}
    /\ FirstLineGrammars(req.code) = {"Shell"}
    /\ resolved = "CMake"

(* C4: a call whose text is not binary returns Ok with table HTML; when no *)
(* lookup finds a grammar (empty path, unknown extension, no first-line    *)
(* match) the plain-text grammar is used; the only error is Binary.        *)
C4_PlainTextFallback ==
    Returned =>
        /\ ~is_binary(req.code).value =>
                /\ ret.ok
                /\ StartsWith(ret.html, TableOpen)
                /\ EndsWith(ret.html, TableClose)
        /\ ~ret.ok => ret.err = "Binary"
        /\ ( /\ GrammarsFor(BaseName(req.filepath)) = {}
             /\ GrammarsFor(ExtensionOf(req.filepath)) = {}
             /\ FirstLineGrammars(req.code) = {} ) =>
                /\ ret.ok
                /\ resolved = PlainText
                /\ \A k \in 1..Len(rows) : k \in tokenized =>
                        rows[k] = RowFrame(k,
                            SpanOpen \o select_theme(load_defaults,
                                                     req.is_light_theme).foreground
                                \o SpanOpenEnd \o Escape(LineOf(req.code, k))
                                \o SpanClose)

\* an unknown extension and no first-line match, rendered as plain text
C4_Witness ==
    /\ Returned /\ ret.ok
    /\ ExtensionOf(req.filepath) = <<117, 110, 107, 110, 111, 119, 110>>  \* "unknown"
    /\ FirstLineGrammars(req.code) = {}
    /\ resolved = PlainText
    /\ Len(rows) >= 1

(* C5: the rows are in line order and as many as the lines of the text     *)
(* (terminators kept): row k carries data-line="k" and the k-th line, raw  *)
(* or tokenized; a text ending in '\n' gets no extra row, the empty text   *)
(* gets none.                                                              *)
C5_RowsMatchLines ==
    (Returned /\ ret.ok) =>
        /\ Len(rows) = NumLines(req.code)
        /\ \A k \in 1..Len(rows) :
                \E body \in {LineOf(req.code, k)} \cup TokenizedBodies(LineOf(req.code, k)) :
                    rows[k] = RowFrame(k, body)
        /\ (req.code # <<>> /\ Last(req.code) = 10) =>
                Len(rows) = Cardinality({i \in 1..Len(req.code) : req.code[i] = 10})
        /\ req.code = <<>> => rows = <<>>

\* eleven lines, each ending in '\n': eleven rows, the last numbered 11
C5_Witness ==
    /\ Returned /\ ret.ok
    /\ Len(rows) = 11
    /\ Last(req.code) = 10

(* C6 as stated: the result is <table><tbody>, the framed rows 1, 2, ...   *)
(* in order, </tbody></table>; the table opening and closing each occur    *)
(* once in it and each row is opened and closed once.                      *)
C6_TableExactlyOnce ==
    (Returned /\ ret.ok) =>
        /\ ret.html = TableOpen \o Flatten(rows) \o TableClose
        /\ Len(rows) = NumLines(req.code)
        /\ \A k \in 1..Len(rows) :
                /\ StartsWith(rows[k], RowOpenA \o DataLine(k) \o RowOpenB)
                /\ EndsWith(rows[k], RowClose)
        /\ Occurrences(ret.html, TableOpen) = 1
        /\ Occurrences(ret.html, TableClose) = 1
        /\ Occurrences(ret.html, RowOpenA) = Len(rows)
        /\ Occurrences(ret.html, RowClose) = Len(rows)

(* C6 amended: the result is <table><tbody>, the framed rows 1, 2, ... in  *)
(* order, </tbody></table>, the rows untransformed; the opening, the       *)
(* closing and each row frame occur once when every line was tokenized (a  *)
(* long line emitted raw is copied unescaped and may hold the same tags).  *)
C6_TableHtml ==
    (Returned /\ ret.ok) =>
        /\ ret.html = TableOpen \o Flatten(rows) \o TableClose
        /\ Len(rows) = NumLines(req.code)
        /\ \A k \in 1..Len(rows) :
                /\ StartsWith(rows[k], RowOpenA \o DataLine(k) \o RowOpenB)
                /\ EndsWith(rows[k], RowClose)
        /\ tokenized = 1..Len(rows) =>
                /\ Occurrences(ret.html, TableOpen) = 1
                /\ Occurrences(ret.html, TableClose) = 1
                /\ Occurrences(ret.html, RowOpenA) = Len(rows)
                /\ Occurrences(ret.html, RowClose) = Len(rows)

\* a table of three rows, all tokenized
C6_Witness ==
    /\ Returned /\ ret.ok
    /\ Len(rows) = 3
    /\ tokenized = {1, 2, 3}

C7_AtThreshold ==
    /\ Returned /\ ret.ok
    /\ ~req.highlight_long_lines
    /\ \E k \in 1..NumLines(req.code) :
            Len(LineOf(req.code, k)) = 2000 /\ k \in tokenized

(* C8: a call returns what an earlier call with the same arguments         *)
(* returned, whatever calls were made in between, and the registries, once *)
(* loaded, hold what their initializers loaded.                            *)
C8_Idempotent ==
    /\ (Returned /\ remembered # NoValue /\ remembered.req = req) =>
            remembered.ret = ret
    /\ SYNTAX_SET.loaded => SYNTAX_SET.v = load_defaults_newlines
    /\ THEME_SET.loaded => THEME_SET.v = load_defaults

\* the second of two calls with the same arguments, three lines of Go with
\* a raw string opened on the first
C8_Witness ==
    /\ Returned /\ ret.ok
    /\ remembered # NoValue
    /\ remembered.req = req
    /\ remembered.ret = ret
    /\ req.code = <<96, 10, 97>>
    /\ resolved = "Go"

(* C9: highlight_ranges returns one group per range, in range order, and   *)
(* group j holds, in line order, exactly the rows whose 1-based line       *)
(* number n has ranges[j].start <= n <= ranges[j].end.                     *)
C9_RangeFilter ==
    groups.some =>
        /\ Len(groups.v) = Len(rreq.ranges)
        /\ \A j \in 1..Len(rreq.ranges) :
                LET inside == {n \in 1..Len(rows) :
                                  rreq.ranges[j].start <= n /\ n <= rreq.ranges[j].end}
                IN groups.v[j] =
                        IF inside = {} THEN <<>>
                        ELSE SubSeq(rows, MinOf(inside), MaxOf(inside))

\* only the number and the order of the groups
C9_OneGroupPerRange ==
    groups.some => Len(groups.v) = Len(rreq.ranges)

\* a UTF-8 decoder, consuming one scalar value at a time
RECURSIVE DecodesAsUtf8(_)
DecodesAsUtf8(s) ==
    IF s = <<>> THEN TRUE
    ELSE LET b == s[1]
             cont(i) == i <= Len(s) /\ s[i] >= 128 /\ s[i] <= 191
             rest(n) == DecodesAsUtf8(SubSeq(s, n + 1, Len(s)))
         IN IF b < 128 THEN rest(1)
            ELSE IF b \in 194..223 THEN cont(2) /\ rest(2)
            ELSE IF b = 224 THEN cont(2) /\ s[2] >= 160 /\ cont(3) /\ rest(3)
            ELSE IF b = 237 THEN cont(2) /\ s[2] <= 159 /\ cont(3) /\ rest(3)
            ELSE IF b \in 225..239 THEN cont(2) /\ cont(3) /\ rest(3)
            ELSE IF b = 240 THEN cont(2) /\ s[2] >= 144 /\ cont(3) /\ cont(4) /\ rest(4)
            ELSE IF b = 244 THEN cont(2) /\ s[2] <= 143 /\ cont(3) /\ cont(4) /\ rest(4)
            ELSE IF b \in 241..243 THEN cont(2) /\ cont(3) /\ cont(4) /\ rest(4)
            ELSE FALSE

\* the top-level category of a MIME type: what precedes its first '/'
TopLevel(m) ==
    LET sl == {i \in 1..Len(m) : m[i] = 47}
    IN IF sl = {} THEN m ELSE SubSeq(m, 1, MinOf(sl) - 1)

(* C10: is_binary is false for bytes that decode as UTF-8, without asking  *)
(* the sniffer; otherwise, with a MIME type sniffed, it is true unless the *)
(* type's top-level category is text; otherwise it is true.                *)
C10_BinaryClassification ==
    binary.some =>
        IF DecodesAsUtf8(content) THEN binary.v = FALSE /\ ~sniff.asked
        ELSE /\ sniff.asked
             /\ sniff.answer = sniff_mime_type(content)
             /\ IF sniff.answer.some
                THEN binary.v = (TopLevel(sniff.answer.v) # <<116, 101, 120, 116>>)
                ELSE binary.v = TRUE

\* bytes that are not UTF-8 and sniff as text: not binary
C10_Witness ==
    /\ binary.some
    /\ ~DecodesAsUtf8(content)
    /\ sniff.asked /\ sniff.answer.some
    /\ binary.v = FALSE

\* bytes that are not UTF-8 and have no MIME type: binary
C10_NoMime ==
    /\ binary.some
    /\ sniff.asked /\ ~sniff.answer.some
    /\ binary.v = TRUE

====
